---- MODULE Spec2Model ----
(***************************************************************************)
(* Model of the adaptive bounding-box fetch loop of src/API/get_data.py    *)
(* (get_response, create_new_rectangles, estimate_grid_size).              *)
(*                                                                         *)
(* Coordinates are fixed-point: one model unit is 0.0001 degree, so the    *)
(* 0.05 degree minimum extent is 500 units and round(x, 3) rounds to the   *)
(* nearest multiple of 10 units.  The initial boxes of Spec are chosen so  *)
(* that every midpoint computed by a split is an integer number of units   *)
(* (see ExactMidpoints), as (north + south) / 2 is exact on such floats.   *)
(*                                                                         *)
(* Floating point: a double has a spacing that grows with its magnitude,   *)
(* and past 2^48 degrees the spacing exceeds the 0.05 degree minimum       *)
(* extent, so that a midpoint rounds to one of the two ends.  The model    *)
(* keeps this in a scaled-down form (Spacing): spacing 1 unit below 10^8   *)
(* units and 1280 units from there on, results rounded to the nearest      *)
(* representable value, ties to the even one.  SpecCoarse starts the loop  *)
(* on a box of that range.                                                 *)
(***************************************************************************)
EXTENDS Integers, Sequences, FiniteSets, TLC

VARIABLES
    bounding_boxes,   \* deque of (north, south, west, est), line 62
    results,          \* list of provider responses, line 63
    checked_boxes,    \* set of rounded keys, line 64
    failures,         \* line 65
    waiting_time,     \* parameter, reassigned at line 123
    result,           \* local of line 106: <<>> while unbound, else <<payload>>
    pc,               \* "loop", "returned" or "raised"
    calls,            \* history: one record per openmeteo.weather_api call, with the params sent
    written,          \* history: the snapshots handed to write_bbox by the run
    max_locations,    \* parameter
    max_retries,      \* parameter
    start,            \* the arguments of the run: [box, waiting_time]
    last,             \* history: what the latest loop iteration did, and to which box
    settled,          \* history: the boxes that left the queue unsplit, and how
    params_template,  \* parameter: the caller's dict
    params,           \* the copy of line 61, sent with every request
    bbox_file,        \* the checkpoint file of src/API/utils.py
    call              \* the latest call of a function of utils.py or of a pure function

loopVars == <<bounding_boxes, results, checked_boxes, failures, waiting_time,
              result, pc, calls, written, max_locations, max_retries, start,
              last, settled, params_template, params>>

utilVars == <<bbox_file, call>>

vars == <<loopVars, utilVars>>

----------------------------------------------------------------------------
(* Bounds and program constants *)

MaxRetriesBound == 3

MinExtent == 500
BackoffCeiling == 300
ErrorDelay == 2
EstimateScale == 1000000
DefaultWaitingTime == 70
DefaultMaxLocations == 1000
DefaultMaxRetries == 200

\* (north, south, west, est) in units of 0.0001 degree
InitialBoxes ==
    { <<3203, 3, 3, 3203>>,      \* 0.32 x 0.32 degree, splits three times at most
      <<1603, 3, 3, 1603>>,      \* 0.16 x 0.16 degree, splits twice at most
      <<603, 3, 603, 3>>,        \* west > est, 0.06 x 0.06 degree
      <<403, 3, 3, 1603>> }      \* 0.04 degree high: below the minimum

\* a box of the range where the spacing of the values exceeds the minimum
\* extent: two spacings wide and high
CoarseBoxes == { <<100003840, 100001280, 100001280, 100003840>> }

WaitingTimes == {1, DefaultWaitingTime, 200}

MaxLocationsChoices == {2, 8, DefaultMaxLocations}

----------------------------------------------------------------------------
(* Pure helpers *)

Abs(x) == IF x < 0 THEN -x ELSE x

Min(a, b) == IF a <= b THEN a ELSE b

Last(s) == s[Len(s)]

\* round(x, 3): nearest multiple of 10 units, ties to the even multiple
Round3(x) ==
    LET a == Abs(x)
        q == a \div 10
        r == a % 10
        m == IF r > 5 \/ (r = 5 /\ q % 2 = 1) THEN q + 1 ELSE q
    IN  IF x < 0 THEN -(m * 10) ELSE m * 10

\* variant of Key: round(x, 1), the nearest multiple of 1000 units
KeyOneDecimal(b) ==
    [j \in 1..4 |-> ((b[j] + 500) \div 1000) * 1000]

\* lines 71-76
Key(b) == <<Round3(b[1]), Round3(b[2]), Round3(b[3]), Round3(b[4])>>

\* spacing of the representable values around x (scaled-down doubles)
Spacing(x) == IF Abs(x) >= 100000000 THEN 1280 ELSE 1

\* lines 33-34: (a + b) / 2 in floating point; exact when the midpoint is
\* representable, else the nearest representable value, ties to even
Mid(a, b) ==
    LET g == Spacing((a + b) \div 2)
        q == (a + b) \div (2 * g)
        r == (a + b) % (2 * g)
        n == IF r > g \/ (r = g /\ q % 2 /= 0) THEN q + 1 ELSE q
    IN  n * g

\* variant of create_new_rectangles: the south-east box starts at west
create_new_rectangles_wide_se(north, south, west, est) ==
    LET mid_lat == Mid(north, south)
        mid_lon == Mid(west, est)
    IN  << <<north, mid_lat, west, mid_lon>>,
           <<north, mid_lat, mid_lon, est>>,
           <<mid_lat, south, west, mid_lon>>,
           <<mid_lat, south, west, est>> >>

\* lines 33-40
create_new_rectangles(north, south, west, est) ==
    LET mid_lat == Mid(north, south)
        mid_lon == Mid(west, est)
    IN  << <<north, mid_lat, west, mid_lon>>,
           <<north, mid_lat, mid_lon, est>>,
           <<mid_lat, south, west, mid_lon>>,
           <<mid_lat, south, mid_lon, est>> >>

\* variant of estimate_grid_size: the absolute values are missing
estimate_grid_size_signed(north, south, west, est) ==
    (north - south) * (est - west)

\* line 45, scaled by EstimateScale (units^2 per 0.1-degree cell)
estimate_grid_size(north, south, west, est) ==
    Abs(north - south) * Abs(est - west)

\* variant of TooSmall: both extents must be below the minimum
TooSmallBothAxes(b) ==
    Abs(b[1] - b[2]) < MinExtent /\ Abs(b[4] - b[3]) < MinExtent

\* line 82
TooSmall(b) == Abs(b[1] - b[2]) < MinExtent \/ Abs(b[4] - b[3]) < MinExtent

\* variant of TooLarge: the comparison is inverted
TooLargeInverted(b, maxloc) ==
    estimate_grid_size(b[1], b[2], b[3], b[4]) < maxloc * EstimateScale

\* lines 87-90
TooLarge(b, maxloc) ==
    estimate_grid_size(b[1], b[2], b[3], b[4]) > maxloc * EstimateScale

\* variant of NextWaitingTime: doubling without the ceiling
NextWaitingTimeUncapped(w) == w * 2

\* line 123
NextWaitingTime(w) == Min(w * 2, BackoffCeiling)

\* variant of ChargeFailure: the failure is not counted
ChargeFailureSkipped(f) == f

\* line 129
ChargeFailure(f) == f + 1

\* variant of Extend: deque.extendleft, the new boxes go to the front
ExtendLeft(queue, new_boxes) ==
    [i \in 1..Len(new_boxes) |-> new_boxes[Len(new_boxes) + 1 - i]] \o queue

\* lines 94 and 118: deque.extend
Extend(queue, new_boxes) == queue \o new_boxes

CollectAtFront(collected, payload) == <<payload>> \o collected

\* line 107: results.append(result)
Collect(collected, payload) == Append(collected, payload)

----------------------------------------------------------------------------
(* Text: a string is a sequence of characters; a placeholder of the       *)
(* request template counts as one character.                              *)

DigitChars == <<"0", "1", "2", "3", "4", "5", "6", "7", "8", "9">>

Chr(d) == DigitChars[d + 1]

RECURSIVE NatDigits(_)
NatDigits(n) ==
    IF n < 10 THEN <<Chr(n)>> ELSE NatDigits(n \div 10) \o <<Chr(n % 10)>>

RECURSIVE StripZeros(_)
StripZeros(t) ==
    IF Len(t) > 1 /\ t[Len(t)] = "0"
    THEN StripZeros(SubSeq(t, 1, Len(t) - 1))
    ELSE t

\* str/repr of a float, as to_csv writes it and as lines 99-102 substitute
\* it: sign, integer part, ".", the decimals without trailing zeros (at
\* least one)
FormatFloat(x) ==
    LET a == Abs(x)
        f == a % 10000
    IN  (IF x < 0 THEN <<"-">> ELSE <<>>)
        \o NatDigits(a \div 10000) \o <<".">>
        \o StripZeros(<<Chr(f \div 1000), Chr((f \div 100) % 10),
                        Chr((f \div 10) % 10), Chr(f % 10)>>)

\* str.replace: every occurrence of the placeholder `old` becomes `new`
Replace(text, old, new) ==
    LET replaced[t \in Seq(STRING)] ==
            IF t = <<>> THEN <<>>
            ELSE (IF Head(t) = old THEN new ELSE <<Head(t)>>)
                 \o replaced[Tail(t)]
    IN  replaced[text]

\* lines 143-157: the template call_api passes (the keys the loop reads or
\* copies: the placeholder string and one more key)
ParamsTemplate ==
    [bounding_box |->
         <<"<SOUTH>", ",", "<WEST>", ",", "<NORTH>", ",", "<EST>">>,
     timezone |-> <<"Europe/Berlin">>]

Substitute(text, box) ==
    Replace(Replace(Replace(Replace(text,
        "<SOUTH>", FormatFloat(box[2])),
        "<NORTH>", FormatFloat(box[1])),
        "<WEST>", FormatFloat(box[3])),
        "<EST>", FormatFloat(box[4]))

BoundingBoxFromParams(template, current, box) ==
    Substitute(current.bounding_box, box)

\* lines 97-103: the bounding_box string of the request for `box`
BoundingBox(template, current, box) ==
    Substitute(template.bounding_box, box)

----------------------------------------------------------------------------
(* Provider error messages: a message is a sequence of fragments, and     *)
(* "marker in reason" holds when the marker is one of the fragments.      *)

Fragments ==
    { "1000 locations", "too many", "Too Many",
      "API request limit exceeded", "api request limit exceeded", "timeout" }

Lower(f) ==
    CASE f = "Too Many" -> "too many"
      [] f = "API request limit exceeded" -> "api request limit exceeded"
      [] OTHER -> f

Messages == { <<f>> : f \in Fragments } \cup (Fragments \X Fragments)

Contains(reason, marker) == \E i \in 1..Len(reason) : reason[i] = marker

ContainsLower(reason, marker) ==
    \E i \in 1..Len(reason) : Lower(reason[i]) = marker

\* line 112
IsTooMany(reason) ==
    Contains(reason, "1000 locations") \/ ContainsLower(reason, "too many")

\* line 120
IsRateLimit(reason) == Contains(reason, "API request limit exceeded")

\* variant of Classify: the rate-limit test comes first
ClassifyRateLimitFirst(reason) ==
    IF IsRateLimit(reason) THEN "RateLimited"
    ELSE IF IsTooMany(reason) THEN "TooManyLocations"
    ELSE "OtherError"

\* lines 112-127: the branch taken for a raised exception
Classify(reason) ==
    IF IsTooMany(reason) THEN "TooManyLocations"
    ELSE IF IsRateLimit(reason) THEN "RateLimited"
    ELSE "OtherError"

----------------------------------------------------------------------------
(* get_response *)

\* lines 61-65
InitWith(boxes) ==
    /\ \E b \in boxes, w \in WaitingTimes :
          /\ bounding_boxes = <<b>>
          /\ waiting_time = w
          /\ start = [box |-> b, waiting_time |-> w]
          /\ last = [op |-> "start", box |-> b]
    /\ results = <<>>
    /\ checked_boxes = {}
    /\ failures = 0
    /\ result = <<>>
    /\ pc = "loop"
    /\ calls = <<>>
    /\ written = <<>>
    /\ max_locations \in MaxLocationsChoices
    /\ max_retries \in 0..MaxRetriesBound
    /\ settled = <<>>
    /\ params_template = ParamsTemplate
    /\ params = params_template
    /\ bbox_file = [exists |-> FALSE, lines |-> <<>>]
    /\ call = [op |-> "none"]

Init == InitWith(InitialBoxes)

InitCoarse == InitWith(CoarseBoxes)

\* variant of LoopCond: the failure ceiling is not tested
LoopCondQueueOnly == bounding_boxes /= <<>>

\* line 67
LoopCond == bounding_boxes /= <<>> /\ failures < max_retries

Running == pc = "loop" /\ LoopCond

Curr == Head(bounding_boxes)

\* variant of Visited: the duplicate test is missing
VisitedNever(b) == FALSE

\* line 77
Visited(b) == Key(b) \in checked_boxes

\* the box passes lines 77-95 and is sent to the provider
Fetchable(b) ==
    /\ ~Visited(b)
    /\ ~TooSmall(b)
    /\ ~TooLarge(b, max_locations)

\* variant of Payload: the request keeps the order north, south, west, est
PayloadNorthFirst(b) == [bounding_box |-> <<b[1], b[2], b[3], b[4]>>]

\* the response of the provider to the request built at lines 97-103
Payload(b) == [bounding_box |-> <<b[2], b[3], b[1], b[4]>>]

\* lines 130-132: len(result) raises UnboundLocalError while result is unbound
AfterLog(res) == IF res = <<>> THEN "raised" ELSE "loop"

\* lines 97-103: params with the bounding_box of the current box
Request ==
    [params EXCEPT
        !.bounding_box = BoundingBox(params_template, params, Curr)]

\* lines 68-84: `continue` on a duplicate key or on a too small box
SkipBox ==
    /\ Running
    /\ Visited(Curr) \/ TooSmall(Curr)
    /\ bounding_boxes' = Tail(bounding_boxes)
    /\ checked_boxes' = checked_boxes \cup {Key(Curr)}
    /\ last' = [op |-> IF Visited(Curr) THEN "skip_duplicate"
                      ELSE "skip_too_small", box |-> Curr]
    /\ settled' = Append(settled,
          [box |-> Curr, how |-> IF Visited(Curr) THEN "duplicate"
                                 ELSE "too_small"])
    /\ UNCHANGED utilVars
    /\ UNCHANGED <<params_template, params>>
    /\ UNCHANGED <<results, failures, waiting_time, result, pc, calls,
                   written, max_locations, max_retries, start>>

\* lines 86-95
SplitTooLarge ==
    /\ Running
    /\ ~Visited(Curr)
    /\ ~TooSmall(Curr)
    /\ TooLarge(Curr, max_locations)
    /\ bounding_boxes' = Extend(Tail(bounding_boxes),
          create_new_rectangles(Curr[1], Curr[2], Curr[3], Curr[4]))
    /\ checked_boxes' = checked_boxes \cup {Key(Curr)}
    /\ last' = [op |-> "split", box |-> Curr]
    /\ UNCHANGED settled
    /\ UNCHANGED utilVars
    /\ UNCHANGED <<params_template, params>>
    /\ UNCHANGED <<results, failures, waiting_time, result, pc, calls,
                   written, max_locations, max_retries, start>>

\* lines 105-108, 130-132
FetchSuccess ==
    /\ Running
    /\ Fetchable(Curr)
    /\ bounding_boxes' = Tail(bounding_boxes)
    /\ checked_boxes' = checked_boxes \cup {Key(Curr)}
    /\ result' = <<Payload(Curr)>>
    /\ results' = Collect(results, Payload(Curr))
    /\ calls' = Append(calls,
          [box |-> Curr, sent |-> Request,
           outcome |-> "Success", slept |-> <<>>])
    /\ pc' = AfterLog(result')
    /\ last' = [op |-> "fetch", box |-> Curr]
    /\ settled' = Append(settled, [box |-> Curr, how |-> "success"])
    /\ UNCHANGED utilVars
    /\ params' = Request
    /\ UNCHANGED params_template
    /\ UNCHANGED <<failures, waiting_time, written, max_locations,
                   max_retries, start>>

\* lines 109-118, 129-132
FetchTooManyLocations ==
    /\ Running
    /\ Fetchable(Curr)
    /\ \E reason \in Messages : Classify(reason) = "TooManyLocations"
    /\ bounding_boxes' = Extend(Tail(bounding_boxes),
          create_new_rectangles(Curr[1], Curr[2], Curr[3], Curr[4]))
    /\ checked_boxes' = checked_boxes \cup {Key(Curr)}
    /\ failures' = ChargeFailure(failures)
    /\ calls' = Append(calls,
          [box |-> Curr, sent |-> Request,
           outcome |-> "TooManyLocations", slept |-> <<>>])
    /\ pc' = AfterLog(result)
    /\ last' = [op |-> "fetch", box |-> Curr]
    /\ UNCHANGED settled
    /\ UNCHANGED utilVars
    /\ params' = Request
    /\ UNCHANGED params_template
    /\ UNCHANGED <<results, waiting_time, result, written, max_locations,
                   max_retries, start>>

\* lines 109-110, 120-123, 129-132
FetchRateLimited ==
    /\ Running
    /\ Fetchable(Curr)
    /\ \E reason \in Messages : Classify(reason) = "RateLimited"
    /\ bounding_boxes' = Tail(bounding_boxes)
    /\ checked_boxes' = checked_boxes \cup {Key(Curr)}
    /\ waiting_time' = NextWaitingTime(waiting_time)
    /\ failures' = ChargeFailure(failures)
    /\ calls' = Append(calls,
          [box |-> Curr, sent |-> Request, outcome |-> "RateLimited",
           slept |-> <<waiting_time>>])
    /\ pc' = AfterLog(result)
    /\ last' = [op |-> "fetch", box |-> Curr]
    /\ settled' = Append(settled, [box |-> Curr, how |-> "failed"])
    /\ UNCHANGED utilVars
    /\ params' = Request
    /\ UNCHANGED params_template
    /\ UNCHANGED <<results, result, written, max_locations, max_retries,
                   start>>

\* lines 109-110, 125-132
FetchOtherError ==
    /\ Running
    /\ Fetchable(Curr)
    /\ \E reason \in Messages : Classify(reason) = "OtherError"
    /\ bounding_boxes' = Tail(bounding_boxes)
    /\ checked_boxes' = checked_boxes \cup {Key(Curr)}
    /\ failures' = ChargeFailure(failures)
    /\ calls' = Append(calls,
          [box |-> Curr, sent |-> Request,
           outcome |-> "OtherError", slept |-> <<ErrorDelay>>])
    /\ pc' = AfterLog(result)
    /\ last' = [op |-> "fetch", box |-> Curr]
    /\ settled' = Append(settled, [box |-> Curr, how |-> "failed"])
    /\ UNCHANGED utilVars
    /\ params' = Request
    /\ UNCHANGED params_template
    /\ UNCHANGED <<results, waiting_time, result, written, max_locations,
                   max_retries, start>>

\* variant of Return: the loop is left but the function does not return
ReturnMissing ==
    /\ pc = "loop"
    /\ ~LoopCond
    /\ UNCHANGED vars

\* lines 67, 133
Return ==
    /\ pc = "loop"
    /\ ~LoopCond
    /\ pc' = "returned"
    /\ UNCHANGED settled
    /\ UNCHANGED utilVars
    /\ UNCHANGED <<params_template, params>>
    /\ UNCHANGED <<bounding_boxes, results, checked_boxes, failures,
                   waiting_time, result, calls, written, max_locations,
                   max_retries, start, last>>

Next ==
    \/ SkipBox
    \/ SplitTooLarge
    \/ FetchSuccess
    \/ FetchTooManyLocations
    \/ FetchRateLimited
    \/ FetchOtherError
    \/ Return

Spec == Init /\ [][Next]_vars

\* the same loop, started on a box of the coarse range
SpecCoarse == InitCoarse /\ [][Next]_vars

\* the loop started on a box of either range: boxes that split twice at
\* most, and the coarse one
InitAll ==
    InitWith((InitialBoxes \ {<<3203, 3, 3, 3203>>}) \cup CoarseBoxes)

\* get_response is sequential code: an iteration that can be done is done
\* (a sleep ends, the provider answers or raises)
SpecLive == InitAll /\ [][Next]_vars /\ WF_vars(Next)

----------------------------------------------------------------------------
(* src/API/utils.py: the checkpoint file.  A file is [exists, lines]; a    *)
(* line is a sequence of cells and a cell a sequence of characters.        *)

MaxCkLen == 2

\* boxes handed to write_bbox, in units of 0.0001 degree
CkBoxes ==
    { <<500600, 500000, 600, 0>>,
      <<-58000, -123405, 3, 1603>>,
      <<510000, 410000, 50000, 100000>> }

CkQueues ==
    UNION { [1..n -> CkBoxes] : n \in 1..MaxCkLen }

Val(c) == CHOOSE d \in 0..9 : Chr(d) = c

RECURSIVE NatValue(_)
NatValue(t) ==
    IF t = <<>> THEN 0
    ELSE 10 * NatValue(SubSeq(t, 1, Len(t) - 1)) + Val(t[Len(t)])

\* the decimals of a number, in units of 0.0001 (scale is 1000 at first)
RECURSIVE FracValue(_, _)
FracValue(t, scale) ==
    IF t = <<>> \/ scale = 0 THEN 0
    ELSE Val(t[1]) * scale + FracValue(Tail(t), scale \div 10)

\* float(text), as read_csv and get_default_coordinates_from_limits parse it
ParseFloat(t) ==
    LET body == IF t[1] = "-" THEN Tail(t) ELSE t
        dots == { i \in 1..Len(body) : body[i] = "." }
        dot  == IF dots = {} THEN Len(body) + 1
                ELSE CHOOSE i \in dots : \A j \in dots : i <= j
        v    == 10000 * NatValue(SubSeq(body, 1, dot - 1))
                + FracValue(SubSeq(body, dot + 1, Len(body)), 1000)
    IN  IF t[1] = "-" THEN -v ELSE v

Header == << <<"north">>, <<"south">>, <<"west">>, <<"est">> >>

CsvLine(b) == [j \in 1..4 |-> FormatFloat(b[j])]

\* variant of to_csv: index=False is missing, every line starts with the
\* index of its row
to_csv_with_index(file, bbox) ==
    [exists |-> TRUE,
     lines |-> << <<<<>>>> \o Header >>
               \o [i \in 1..Len(bbox) |->
                      <<NatDigits(i - 1)>> \o CsvLine(bbox[i])]]

\* lines 37-38: the file is opened with "w" and the frame written with its
\* header and without index
to_csv(file, bbox) ==
    [exists |-> TRUE,
     lines |-> <<Header>> \o [i \in 1..Len(bbox) |-> CsvLine(bbox[i])]]

\* lines 64-67: the first line is the header, every other line a row of
\* floats
read_csv_rows(file) ==
    [i \in 1..(Len(file.lines) - 1) |->
        [j \in 1..Len(file.lines[i + 1]) |->
            ParseFloat(file.lines[i + 1][j])]]

\* lines 60-67; pandas.read_csv raises EmptyDataError on a file without any
\* line
read_data_bbox(file) ==
    IF ~file.exists THEN [status |-> "returned", ret |-> <<>>]
    ELSE IF file.lines = <<>> THEN [status |-> "raised", ret |-> <<>>]
    ELSE [status |-> "returned", ret |-> read_csv_rows(file)]

\* src/params.py lines 104-107, as the words of each string
LIMIT_WEST == << <<"0", "0", "5">>, <<"4", "8">>, <<"W">> >>
LIMIT_EST == << <<"1", "0">>, <<"E">> >>
LIMIT_NORTH == << <<"5", "1">>, <<"3", "0">>, <<"N">> >>
LIMIT_SOUTH == << <<"4", "1">>, <<"N">> >>

\* default_values.py lines 6-15; lim.split(" ")[0] is the first word
get_default_coordinates_from_limits(limits) ==
    [j \in 1..4 |-> ParseFloat(limits[j][1])]

\* default_values.py lines 18-22
get_coordinates ==
    get_default_coordinates_from_limits(
        <<LIMIT_NORTH, LIMIT_SOUTH, LIMIT_WEST, LIMIT_EST>>)

\* lines 91-95; default_bbox is <<>> for None, else <<box>>
get_sized_bboxes(file, default_bbox) ==
    LET bbox == read_data_bbox(file)
        default_bbox_deque ==
            IF default_bbox /= <<>> THEN default_bbox
            ELSE <<get_coordinates>>
    IN  IF bbox.status = "raised" THEN bbox
        ELSE IF Len(bbox.ret) /= 0 THEN bbox
        ELSE [status |-> "returned", ret |-> default_bbox_deque]

\* the files the run can find: none, one without any line, one with the
\* header only, one written earlier
InitialFiles ==
    { [exists |-> FALSE, lines |-> <<>>],
      [exists |-> TRUE, lines |-> <<>>],
      [exists |-> TRUE, lines |-> <<Header>>] }
    \cup { to_csv([exists |-> FALSE, lines |-> <<>>], <<b>>) : b \in CkBoxes }

\* get_response is not running while the functions of this section are called
LoopIdle ==
    /\ bounding_boxes = <<>>
    /\ results = <<>>
    /\ checked_boxes = {}
    /\ failures = 0
    /\ waiting_time = DefaultWaitingTime
    /\ result = <<>>
    /\ pc = "idle"
    /\ calls = <<>>
    /\ written = <<>>
    /\ max_locations = DefaultMaxLocations
    /\ max_retries = 0
    /\ start = [box |-> <<>>, waiting_time |-> DefaultWaitingTime]
    /\ last = [op |-> "start", box |-> <<>>]
    /\ settled = <<>>
    /\ params_template = ParamsTemplate
    /\ params = params_template

InitUtils ==
    /\ LoopIdle
    /\ bbox_file \in InitialFiles
    /\ call = [op |-> "none"]

\* utils.py lines 33-39, no error
WriteBbox ==
    /\ \E bbox \in CkQueues :
          /\ bbox_file' = to_csv(bbox_file, bbox)
          /\ call' = [op |-> "write_bbox", arg |-> bbox,
                      status |-> "returned", failed |-> FALSE,
                      logged |-> <<"debug", "success">>]
    /\ UNCHANGED loopVars

\* utils.py lines 33-37: os.makedirs or open raises OSError; nothing catches
\* it
WriteBboxFails ==
    /\ \E bbox \in CkQueues :
          call' = [op |-> "write_bbox", arg |-> bbox,
                   status |-> "raised", failed |-> TRUE,
                   logged |-> <<"debug">>]
    /\ UNCHANGED bbox_file
    /\ UNCHANGED loopVars

\* utils.py lines 60-67
ReadDataBbox ==
    /\ call' = [op |-> "read_data_bbox", arg |-> <<>>,
                status |-> read_data_bbox(bbox_file).status,
                ret |-> read_data_bbox(bbox_file).ret]
    /\ UNCHANGED bbox_file
    /\ UNCHANGED loopVars

\* utils.py lines 91-95
GetSizedBboxes ==
    /\ \E default_bbox \in {<<>>} \cup { <<b>> : b \in CkBoxes } :
          call' = [op |-> "get_sized_bboxes", arg |-> default_bbox,
                   status |-> get_sized_bboxes(bbox_file, default_bbox).status,
                   ret |-> get_sized_bboxes(bbox_file, default_bbox).ret]
    /\ UNCHANGED bbox_file
    /\ UNCHANGED loopVars

NextUtils ==
    \/ WriteBbox
    \/ WriteBboxFails
    \/ ReadDataBbox
    \/ GetSizedBboxes

SpecUtils == InitUtils /\ [][NextUtils]_vars

----------------------------------------------------------------------------
(* create_new_rectangles, estimate_grid_size and the classification of a   *)
(* failure, applied to inputs drawn by the initial state                   *)

MaxCoord == 2

PureCoords == (0 - MaxCoord)..MaxCoord

\* boxes of every orientation around the origin, the boxes get_response
\* starts from, and one where the spacing of the floats is coarse
PureBoxes ==
    { <<n, s, w, e>> : n \in PureCoords, s \in PureCoords,
                       w \in PureCoords, e \in PureCoords }
    \cup InitialBoxes \cup CoarseBoxes

\* second argument of a comparison of two estimates
AnchoredBoxes == { <<n, 0, 0, e>> : n \in PureCoords, e \in PureCoords }

\* get_data.py lines 56-58: the parameters of get_response that have a default
ParameterNames == {"waiting_time", "max_locations", "max_retries"}

\* the values a caller may pass for them
ParameterValues ==
    [waiting_time : WaitingTimes, max_locations : MaxLocationsChoices,
     max_retries : 0..MaxRetriesBound]

\* get_data.py lines 56-58: a parameter is bound to the caller's value when
\* one is given, else to its default
get_response_parameters(given, values) ==
    [waiting_time |-> IF "waiting_time" \in given THEN values.waiting_time
                      ELSE DefaultWaitingTime,
     max_locations |-> IF "max_locations" \in given THEN values.max_locations
                       ELSE DefaultMaxLocations,
     max_retries |-> IF "max_retries" \in given THEN values.max_retries
                     ELSE DefaultMaxRetries]

PureInputs ==
    { [op |-> "input", a |-> a, b |-> b, reason |-> <<>>] :
          a \in PureBoxes, b \in AnchoredBoxes }
    \cup { [op |-> "input", a |-> <<>>, b |-> <<>>, reason |-> r] :
              r \in Messages }
    \cup { [op |-> "arguments", given |-> g, values |-> v] :
              g \in SUBSET ParameterNames, v \in ParameterValues }

InitPure ==
    /\ LoopIdle
    /\ bbox_file = [exists |-> FALSE, lines |-> <<>>]
    /\ call \in PureInputs

\* get_data.py lines 19-40
ApplySplit ==
    /\ call.op = "input"
    /\ call.a /= <<>>
    /\ call' = [op |-> "create_new_rectangles", arg |-> call.a,
                ret |-> create_new_rectangles(call.a[1], call.a[2],
                                              call.a[3], call.a[4])]
    /\ UNCHANGED bbox_file
    /\ UNCHANGED loopVars

\* get_data.py lines 43-45, on two boxes
ApplyEstimate ==
    /\ call.op = "input"
    /\ call.a /= <<>>
    /\ call' = [op |-> "estimate_grid_size", arg |-> <<call.a, call.b>>,
                ret |-> << estimate_grid_size(call.a[1], call.a[2],
                                              call.a[3], call.a[4]),
                           estimate_grid_size(call.b[1], call.b[2],
                                              call.b[3], call.b[4]) >>]
    /\ UNCHANGED bbox_file
    /\ UNCHANGED loopVars

\* get_data.py lines 109-127: the branch chosen for the message
ApplyClassify ==
    /\ call.op = "input"
    /\ call.reason /= <<>>
    /\ call' = [op |-> "classify", arg |-> call.reason,
                ret |-> Classify(call.reason)]
    /\ UNCHANGED bbox_file
    /\ UNCHANGED loopVars

\* get_data.py lines 48-59: the call binds the parameters of get_response
BindParameters ==
    /\ call.op = "arguments"
    /\ call' = [op |-> "get_response", given |-> call.given,
                bound |-> get_response_parameters(call.given, call.values)]
    /\ UNCHANGED bbox_file
    /\ UNCHANGED loopVars

NextPure ==
    \/ ApplySplit
    \/ ApplyEstimate
    \/ ApplyClassify
    \/ BindParameters

SpecPure == InitPure /\ [][NextPure]_vars

----------------------------------------------------------------------------
(* src/IOHandler/write_data.py (save_dataframe) and call_api of            *)
(* src/API/get_data.py.  A filename is a sequence of parts, the last one   *)
(* its ending; a log entry is [level, msg, pair], pair 0 when the entry is *)
(* not about one (dataframe, filename) pair.                               *)

MaxPairs == 2

Frames == {"df1", "df2"}

FileNames ==
    { <<"daily", ".csv">>, <<"notes", ".txt">>, <<"old", ".csv", ".bak">> }

\* writting_mods.py lines 9-11
SaveModes == {"init", "add", "merge"}

\* a list argument, or a single value (is_list = FALSE, one item)
ListOrOne(S) ==
    { [is_list |-> TRUE, items |-> q] :
          q \in UNION { [1..n -> S] : n \in 0..MaxPairs } }
    \cup { [is_list |-> FALSE, items |-> <<x>>] : x \in S }

Log(level, msg, pair) == [level |-> level, msg |-> msg, pair |-> pair]

\* variant of EndsWithCsv: ".csv" anywhere in the name
ContainsCsv(filename) == \E j \in 1..Len(filename) : filename[j] = ".csv"

\* write_data.py line 35
EndsWithCsv(filename) ==
    filename /= <<>> /\ filename[Len(filename)] = ".csv"

\* variant of InitWriteFailed: the error is logged and swallowed
InitWriteFailedSwallowed(files, logged, i) ==
    [status |-> "returned", written |-> files,
     logged |-> logged \o <<Log("error", "error_writing", i)>>]

\* write_data.py lines 70-72: to_csv raised in INIT mode
InitWriteFailed(files, logged, i) ==
    [status |-> "raised", written |-> files,
     logged |-> logged \o <<Log("error", "error_writing", i)>>]

\* write_data.py lines 30-78, from pair i on; fails_at is the pair whose
\* file operation (read_csv, to_csv) raises, 0 when none does
RECURSIVE SaveFrom(_, _, _, _, _, _, _)
SaveFrom(i, frames, filenames, mode, fails_at, files, logged) ==
    IF i > Len(frames)
    THEN [status |-> "returned", written |-> files, logged |-> logged]
    ELSE
      LET filename == filenames[i]
          log1 == Append(logged, Log("info", "processing", i))
          done == Append(files,
                         [pair |-> i, file |-> filename, frame |-> frames[i],
                          mode |-> mode])
          ok == Log("success", "no_errors", i)
      IN  IF ~EndsWithCsv(filename)
          THEN SaveFrom(i + 1, frames, filenames, mode, fails_at, files,
                        Append(log1, Log("warning", "not_csv", i)))
          ELSE IF mode = "merge"
          THEN LET log2 == Append(log1, Log("info", "merging", i))
               IN  IF fails_at = i
                   THEN [status |-> "raised", written |-> files,
                         logged |-> log2]
                   ELSE SaveFrom(i + 1, frames, filenames, mode, fails_at,
                                 done, Append(log2, ok))
          ELSE IF mode = "add"
          THEN LET log2 == Append(log1, Log("info", "adding", i))
               IN  IF fails_at = i
                   THEN [status |-> "raised", written |-> files,
                         logged |-> log2]
                   ELSE SaveFrom(i + 1, frames, filenames, mode, fails_at,
                                 done, Append(log2, ok))
          ELSE LET log2 == log1 \o <<Log("info", "creating", i),
                                     Log("info", "about_to_write", i)>>
               IN  IF fails_at = i
                   THEN InitWriteFailed(files, log2, i)
                   ELSE SaveFrom(i + 1, frames, filenames, mode, fails_at,
                                 done,
                                 log2 \o <<Log("info", "wrote", i), ok>>)

\* write_data.py lines 17-78
save_dataframe(dataframes, filenames, mode, fails_at) ==
    LET log0 ==
            (IF dataframes.is_list THEN <<>>
             ELSE <<Log("debug", "format_dataframes", 0)>>)
            \o (IF filenames.is_list THEN <<>>
                ELSE <<Log("debug", "format_filenames", 0)>>)
    IN  IF Len(dataframes.items) /= Len(filenames.items)
        THEN [status |-> "returned", written |-> <<>>,
              logged |-> Append(log0, Log("warning", "size_mismatch", 0))]
        ELSE SaveFrom(1, dataframes.items, filenames.items, mode, fails_at,
                      <<>>, log0)

\* the arguments of one call of save_dataframe, and the pair at which the
\* file system fails
SaveArguments ==
    { [op |-> "save_dataframe_args", dataframes |-> d, filenames |-> f,
       mode |-> m, fails_at |-> k] :
          d \in ListOrOne(Frames), f \in ListOrOne(FileNames),
          m \in SaveModes, k \in 0..MaxPairs }

\* one call of save_dataframe
SaveDataframe ==
    /\ call.op = "save_dataframe_args"
    /\ LET r == save_dataframe(call.dataframes, call.filenames, call.mode,
                               call.fails_at)
       IN  call' = [op |-> "save_dataframe",
                    arg |-> [dataframes |-> call.dataframes.items,
                             filenames |-> call.filenames.items,
                             mode |-> call.mode, fails_at |-> call.fails_at],
                    status |-> r.status, written |-> r.written,
                    logged |-> r.logged]
    /\ UNCHANGED bbox_file
    /\ UNCHANGED loopVars

\* what the get_response called at get_data.py line 159 gives back: a list
\* of lists of responses, a response having hourly and daily data or not
ApiResponses ==
    [hourly : BOOLEAN, daily : BOOLEAN]

ResponseLists ==
    {<<>>} \cup { << <<r>> >> : r \in ApiResponses }
    \cup { << <<r1>>, <<r2>> >> : r1 \in ApiResponses, r2 \in ApiResponses }

\* get_data.py lines 173-231: the tables built and printed, one entry per
\* response; the daily table is built only when there is hourly data
PrintedTables(responses) ==
    [i \in 1..Len(responses) |->
        LET response == responses[i][1]
        IN  IF ~response.hourly THEN <<>>
            ELSE IF ~response.daily THEN <<"hourly">>
            ELSE <<"hourly", "daily">>]

\* get_data.py lines 136-231: get_response is called once, the tables are
\* printed, and the function ends without a return statement: None, written
\* <<>> here
CallApi ==
    /\ call.op = "call_api_args"
    /\ call' = [op |-> "call_api", arg |-> call.responses,
                get_response_calls |-> 1, status |-> "returned",
                printed |-> PrintedTables(call.responses), ret |-> <<>>]
    /\ UNCHANGED bbox_file
    /\ UNCHANGED loopVars

\* get_data.py lines 159-167: get_response raises and nothing catches it
CallApiRaises ==
    /\ call.op = "call_api_args"
    /\ call' = [op |-> "call_api", arg |-> <<>>, get_response_calls |-> 1,
                status |-> "raised", printed |-> <<>>, ret |-> <<>>]
    /\ UNCHANGED bbox_file
    /\ UNCHANGED loopVars

InitIO ==
    /\ LoopIdle
    /\ bbox_file = [exists |-> FALSE, lines |-> <<>>]
    /\ call \in SaveArguments
              \cup { [op |-> "call_api_args", responses |-> r] :
                        r \in ResponseLists }

NextIO ==
    \/ SaveDataframe
    \/ CallApi
    \/ CallApiRaises

SpecIO == InitIO /\ [][NextIO]_vars

----------------------------------------------------------------------------
(* Sanity of the model *)

TypeOK ==
    /\ pc \in {"idle", "loop", "returned", "raised"}
    /\ failures \in 0..(MaxRetriesBound + 1)
    /\ Len(result) <= 1
    /\ \A i \in 1..Len(bounding_boxes) : Len(bounding_boxes[i]) = 4

\* every box that can be split has integer midpoints
ExactMidpoints ==
    \A i \in 1..Len(bounding_boxes) :
        LET b == bounding_boxes[i]
        IN  ~TooSmall(b) => (b[1] + b[2]) % 2 = 0 /\ (b[3] + b[4]) % 2 = 0

----------------------------------------------------------------------------
(* Claims *)

Ended == pc \in {"returned", "raised"}

\* a provider call was made by the step and ended with outcome o
Called(o) ==
    /\ Len(calls') = Len(calls) + 1
    /\ calls'[Len(calls')].outcome = o

CallsWith(o) == { i \in 1..Len(calls) : calls[i].outcome = o }

InQueue(b, queue) == \E i \in 1..Len(queue) : queue[i] = b

\* the arguments of every time.sleep call of the run, in order
RECURSIVE SleepsOf(_)
SleepsOf(cs) ==
    IF cs = <<>> THEN <<>> ELSE cs[1].slept \o SleepsOf(Tail(cs))

\* C1: get_response never raises for a provider-side failure; whatever the
\* provider raises, on any call including the first, the function does not
\* end by raising.
C1_NeverRaises == pc /= "raised"

\* C2: on a RateLimited outcome the same box is pushed back to the front of
\* the queue and its key is removed from the visited set, so that the box is
\* the next one dequeued.
C2_RateLimitedRequeuedAtFront ==
    [][ Called("RateLimited") =>
          /\ bounding_boxes' /= <<>>
          /\ Head(bounding_boxes') = Curr
          /\ Key(Curr) \notin checked_boxes' ]_vars

\* C3: rate limiting is never charged: the failure count equals the number
\* of TooManyLocations and OtherError outcomes seen so far.
C3_RateLimitNotCharged ==
    failures = Cardinality(CallsWith("TooManyLocations")
                           \cup CallsWith("OtherError"))

\* the backoff used on the i-th rate-limited event of a run started with w
RECURSIVE BackoffAt(_, _)
BackoffAt(w, i) ==
    IF i <= 1 THEN w
    ELSE LET d == 2 * BackoffAt(w, i - 1)
         IN  IF d > 300 THEN 300 ELSE d

RateLimitedCalls == SelectSeq(calls, LAMBDA c : c.outcome = "RateLimited")

\* C4: the i-th rate-limited event sleeps w, min(2w,300), min(4w,300), ...
\* where w is the initial waiting_time; the backoff is doubled only after the
\* sleep, and from the second event on it never exceeds 300.
C4_BackoffSequence ==
    /\ \A i \in 1..Len(RateLimitedCalls) :
          /\ RateLimitedCalls[i].slept = <<BackoffAt(start.waiting_time, i)>>
          /\ i >= 2 => RateLimitedCalls[i].slept[1] <= 300
    /\ waiting_time = BackoffAt(start.waiting_time, Len(RateLimitedCalls) + 1)

\* three rate-limited events, the ceiling applied on the second one
C4_Witness ==
    /\ Len(RateLimitedCalls) >= 3
    /\ RateLimitedCalls[1].slept = <<200>>
    /\ RateLimitedCalls[2].slept = <<300>>

\* C5: get_response returns as soon as one call succeeds: the list never
\* holds more than one payload and no provider call follows a success.
C5_ReturnsAfterFirstSuccess ==
    /\ Len(results) <= 1
    /\ \A i \in CallsWith("Success") : i = Len(calls)

\* C6: the checkpoint is written on the first success of the run, with the
\* remaining queue plus the box just processed, never before and never again.
C6_CheckpointOnFirstSuccess ==
    [][ /\ results' = <<>> => written' = <<>>
        /\ (results = <<>> /\ results' /= <<>>) =>
              /\ Len(written') = 1
              /\ \/ written'[1] = Append(Tail(bounding_boxes), Curr)
                 \/ written'[1] = <<Curr>> \o Tail(bounding_boxes)
        /\ results /= <<>> => written' = written ]_vars

\* C7: when the first provider call is rate-limited and the second succeeds,
\* the run ends by returning, having slept exactly once (the initial backoff),
\* made exactly 2 provider calls and collected exactly 1 payload.
C7_RateLimitThenSuccess ==
    ( /\ Ended
      /\ calls /= <<>>
      /\ calls[1].outcome = "RateLimited"
      /\ Len(calls) >= 2 => calls[2].outcome = "Success" )
    => /\ pc = "returned"
       /\ Len(calls) = 2
       /\ calls[2].outcome = "Success"
       /\ SleepsOf(calls) = <<start.waiting_time>>
       /\ Len(results) = 1

\* the four quadrants of b, in the order NW, NE, SW, SE
IsQuadrants(b, q) ==
    /\ Len(q) = 4
    /\ LET mid_lat == q[1][2]
           mid_lon == q[1][4]
       IN
          /\ 2 * mid_lat = b[1] + b[2]
          /\ 2 * mid_lon = b[3] + b[4]
          /\ q[1] = <<b[1], mid_lat, b[3], mid_lon>>
          /\ q[2] = <<b[1], mid_lat, mid_lon, b[4]>>
          /\ q[3] = <<mid_lat, b[2], b[3], mid_lon>>
          /\ q[4] = <<mid_lat, b[2], mid_lon, b[4]>>

\* C8: on a TooManyLocations outcome the rejected box is replaced by its 4
\* quadrant children at the back of the queue (3 more entries than before the
\* box was dequeued) and the failure count grows by exactly 1.
C8_TooManyLocationsSplits ==
    [][ Called("TooManyLocations") =>
          /\ Len(bounding_boxes') = Len(bounding_boxes) + 3
          /\ SubSeq(bounding_boxes', 1, Len(bounding_boxes) - 1)
                = Tail(bounding_boxes)
          /\ IsQuadrants(Curr, SubSeq(bounding_boxes', Len(bounding_boxes),
                                      Len(bounding_boxes')))
          /\ failures' = failures + 1 ]_vars

\* a rejected box was split while other boxes were pending, and the loop
\* goes on
C8_Witness ==
    /\ pc = "loop"
    /\ calls /= <<>>
    /\ Last(calls).outcome = "TooManyLocations"
    /\ last = [op |-> "fetch", box |-> Last(calls).box]
    /\ Len(bounding_boxes) > 4

\* C9: on an OtherError outcome the box is dropped and not requeued (the
\* queue is one shorter than before the box was dequeued), the fixed 2 s
\* delay is slept and the failure count grows by exactly 1; a box dropped
\* this way never comes back into the queue.
C9_OtherErrorDrops ==
    [][ /\ Called("OtherError") =>
            /\ bounding_boxes' = Tail(bounding_boxes)
            /\ Len(bounding_boxes') = Len(bounding_boxes) - 1
            /\ calls'[Len(calls')].slept = <<2>>
            /\ calls'[Len(calls')].box = Curr
            /\ failures' = failures + 1
        /\ \A i \in 1..Len(calls') :
              calls'[i].outcome = "OtherError" =>
                  ~InQueue(calls'[i].box, bounding_boxes') ]_vars

\* a box was dropped after an unclassified error and the loop goes on
C9_Witness ==
    /\ pc = "loop"
    /\ calls /= <<>>
    /\ Last(calls).outcome = "OtherError"
    /\ last = [op |-> "fetch", box |-> Last(calls).box]
    /\ bounding_boxes /= <<>>

\* C10: a dequeued box with |north-south| < 0.05 or |east-west| < 0.05 is
\* dropped at once: no provider call, no split, the queue one shorter and
\* the failure count unchanged.
C10_TooSmallDropped ==
    [][ ( /\ pc = "loop"
          /\ bounding_boxes /= <<>>
          /\ failures < max_retries
          /\ \/ Abs(Curr[1] - Curr[2]) < 500
             \/ Abs(Curr[4] - Curr[3]) < 500 )
        => /\ bounding_boxes' = Tail(bounding_boxes)
           /\ Len(bounding_boxes') = Len(bounding_boxes) - 1
           /\ calls' = calls
           /\ results' = results
           /\ failures' = failures ]_vars

\* a too small child of a split was dropped while other boxes were pending
C10_Witness ==
    /\ last.op = "skip_too_small"
    /\ last.box /= start.box
    /\ Abs(last.box[1] - last.box[2]) < 500
    /\ bounding_boxes /= <<>>

\* C11: a dequeued box, neither a duplicate nor too small, whose estimated
\* size exceeds max_locations is not sent to the provider: the queue becomes
\* the remaining boxes followed by its 4 quadrants and no failure is charged.
C11_TooLargeSplitNotFetched ==
    [][ ( /\ pc = "loop"
          /\ bounding_boxes /= <<>>
          /\ failures < max_retries
          /\ Key(Curr) \notin checked_boxes
          /\ Abs(Curr[1] - Curr[2]) >= 500
          /\ Abs(Curr[4] - Curr[3]) >= 500
          /\ Abs(Curr[1] - Curr[2]) * Abs(Curr[4] - Curr[3])
                > max_locations * 1000000 )
        => /\ Len(bounding_boxes') = Len(bounding_boxes) + 3
           /\ SubSeq(bounding_boxes', 1, Len(bounding_boxes) - 1)
                 = Tail(bounding_boxes)
           /\ IsQuadrants(Curr, SubSeq(bounding_boxes', Len(bounding_boxes),
                                       Len(bounding_boxes')))
           /\ calls' = calls
           /\ results' = results
           /\ failures' = failures ]_vars

\* a box produced by a split was itself split without a provider call, while
\* other boxes were pending
C11_Witness ==
    /\ last.op = "split"
    /\ last.box /= start.box
    /\ calls = <<>>
    /\ Len(bounding_boxes) > 4

\* C12: the loop runs exactly while the queue is non-empty and the failure
\* count is below max_retries: an iteration starts only then, the function
\* returns through the loop exit only when the queue is empty or the ceiling
\* is reached, and what it returns is the list accumulated so far, one
\* payload per successful call.
C12_LoopRunsWhileWorkAndBudget ==
    [][ /\ (pc = "loop" /\ pc' = "returned") =>
              /\ bounding_boxes = <<>> \/ failures >= max_retries
              /\ results' = results
              /\ Len(results') = Cardinality(CallsWith("Success"))
        /\ (pc = "loop" /\ pc' /= "returned") =>
              /\ bounding_boxes /= <<>>
              /\ failures < max_retries ]_vars

\* the function returned on the failure ceiling, boxes still pending, with
\* the payloads collected before
C12_Witness ==
    /\ pc = "returned"
    /\ failures >= max_retries
    /\ bounding_boxes /= <<>>
    /\ results /= <<>>

\* C13: a dequeued box whose key (its four coordinates rounded to 3 decimals)
\* is already in the visited set is discarded: no provider call, no split,
\* no failure charged, the queue one shorter.
C13_DuplicateDiscarded ==
    [][ ( /\ pc = "loop"
          /\ bounding_boxes /= <<>>
          /\ failures < max_retries
          /\ <<Round3(Curr[1]), Round3(Curr[2]), Round3(Curr[3]),
               Round3(Curr[4])>> \in checked_boxes )
        => /\ bounding_boxes' = Tail(bounding_boxes)
           /\ Len(bounding_boxes') = Len(bounding_boxes) - 1
           /\ calls' = calls
           /\ results' = results
           /\ failures' = failures
           /\ checked_boxes' = checked_boxes ]_vars

\* a box that is large enough to be fetched was discarded as a duplicate: the
\* child of a split whose midpoints rounded to the ends of its parent
C13_Witness ==
    /\ last.op = "skip_duplicate"
    /\ Abs(last.box[1] - last.box[2]) >= 500
    /\ Abs(last.box[4] - last.box[3]) >= 500
    /\ calls /= <<>>
    /\ Last(calls).box = last.box

\* C14: checkpoint round trip: write_bbox(B1..Bn), n >= 1, followed by
\* get_sized_bboxes on the same file returns B1..Bn, same order and values,
\* whatever the file held before the write and whatever the default box is.
C14_CheckpointRoundTrip ==
    [][ ( /\ call.op = "write_bbox"
          /\ call.status = "returned"
          /\ call'.op = "get_sized_bboxes" )
        => /\ call'.status = "returned"
           /\ Len(call'.ret) = Len(call.arg)
           /\ \A i \in 1..Len(call.arg) : call'.ret[i] = call.arg[i] ]_vars

\* two different boxes came back in order, a default box being given
C14_Witness ==
    /\ call.op = "get_sized_bboxes"
    /\ call.arg /= <<>>
    /\ Len(call.ret) = 2
    /\ call.ret[1] /= call.ret[2]
    /\ call.ret[1] /= call.arg[1]
    /\ call.ret[2] /= call.arg[1]

\* what get_sized_bboxes falls back to
DefaultQueue(default_bbox) ==
    IF default_bbox /= <<>> THEN default_bbox
    ELSE << <<510000, 410000, 50000, 100000>> >>

\* C15: without a checkpoint file read_data_bbox returns an empty
\* queue and get_sized_bboxes the single default box; the same fallback
\* applies whenever the file exists but holds no rows.
C15_FallbackWheneverNoRows ==
    /\ (call.op = "read_data_bbox" /\ ~bbox_file.exists) =>
          (call.status = "returned" /\ call.ret = <<>>)
    /\ ( /\ call.op = "get_sized_bboxes"
         /\ ~bbox_file.exists \/ Len(bbox_file.lines) <= 1 )
       => /\ call.status = "returned"
          /\ call.ret = DefaultQueue(call.arg)

\* C16: a failure to write the checkpoint is logged and does not abort: the
\* failed write_bbox returns to its caller after logging the failure.
C16_WriteFailureLoggedNotRaised ==
    (call.op = "write_bbox" /\ call.failed) =>
        /\ call.status = "returned"
        /\ \E i \in 1..Len(call.logged) :
              call.logged[i] \in {"warning", "error", "exception"}

\* area of a box, in units^2, and of what two boxes have in common
Area(b) == (b[1] - b[2]) * (b[4] - b[3])

Max(a, b) == IF a > b THEN a ELSE b

Overlap(p, q) ==
    Max(0, Min(p[1], q[1]) - Max(p[2], q[2]))
    * Max(0, Min(p[4], q[4]) - Max(p[3], q[3]))

\* C17: for a box with north >= south and est >= west, create_new_rectangles
\* returns exactly 4 boxes, NW, NE, SW, SE around one inner point of the
\* parent, whose areas sum to the parent's area and which pairwise have no
\* area in common.
C17_SplitPartitionsParent ==
    ( /\ call.op = "create_new_rectangles"
      /\ call.arg[1] >= call.arg[2]
      /\ call.arg[4] >= call.arg[3] )
    => LET b == call.arg
           q == call.ret
           mid_lat == q[1][2]
           mid_lon == q[1][4]
       IN  /\ Len(q) = 4
           /\ b[2] <= mid_lat /\ mid_lat <= b[1]
           /\ b[3] <= mid_lon /\ mid_lon <= b[4]
           /\ q[1] = <<b[1], mid_lat, b[3], mid_lon>>
           /\ q[2] = <<b[1], mid_lat, mid_lon, b[4]>>
           /\ q[3] = <<mid_lat, b[2], b[3], mid_lon>>
           /\ q[4] = <<mid_lat, b[2], mid_lon, b[4]>>
           /\ Area(q[1]) + Area(q[2]) + Area(q[3]) + Area(q[4]) = Area(b)
           /\ \A i \in 1..4 : \A j \in 1..4 :
                 i /= j => Overlap(q[i], q[j]) = 0

\* a box of positive area was split into four boxes of positive area
C17_Witness ==
    /\ call.op = "create_new_rectangles"
    /\ call.arg[1] > call.arg[2]
    /\ call.arg[4] > call.arg[3]
    /\ \A i \in 1..4 : Area(call.ret[i]) > 0

\* C18: estimate_grid_size is monotonic in both extents, equals
\* |north - south| x |est - west| / 0.01 (here in units^2, EstimateScale of
\* them per location) and is 0 for a box of zero extent in either axis.
C18_EstimateMonotonic ==
    call.op = "estimate_grid_size"
    => LET A == call.arg[1]
           B == call.arg[2]
       IN  /\ ( /\ Abs(A[1] - A[2]) <= Abs(B[1] - B[2])
                /\ Abs(A[4] - A[3]) <= Abs(B[4] - B[3]) )
              => call.ret[1] <= call.ret[2]
           /\ ( /\ Abs(B[1] - B[2]) <= Abs(A[1] - A[2])
                /\ Abs(B[4] - B[3]) <= Abs(A[4] - A[3]) )
              => call.ret[2] <= call.ret[1]
           /\ call.ret[1] = Abs(A[1] - A[2]) * Abs(A[4] - A[3])
           /\ call.ret[1] >= 0
           /\ (A[1] = A[2] \/ A[3] = A[4]) => call.ret[1] = 0

\* an inverted box, smaller in both extents than the second one, got the
\* smaller, positive estimate
C18_Witness ==
    /\ call.op = "estimate_grid_size"
    /\ call.arg[1][1] < call.arg[1][2]
    /\ call.arg[1][4] < call.arg[1][3]
    /\ Abs(call.arg[1][1] - call.arg[1][2])
          < Abs(call.arg[2][1] - call.arg[2][2])
    /\ Abs(call.arg[1][4] - call.arg[1][3])
          < Abs(call.arg[2][4] - call.arg[2][3])
    /\ 0 < call.ret[1]
    /\ call.ret[1] < call.ret[2]

\* the message holds one of the given fragments
HasAny(reason, fragments) ==
    \E i \in 1..Len(reason) : reason[i] \in fragments

\* C19: a message containing "1000 locations" or, in any case, "too many" is
\* TooManyLocations; otherwise one containing "API request limit exceeded"
\* is RateLimited; every other message is OtherError.  The first test wins
\* when both markers are present.
C19_ClassificationByMessage ==
    call.op = "classify"
    => LET tooMany == HasAny(call.arg,
                             {"1000 locations", "too many", "Too Many"})
           rate == HasAny(call.arg, {"API request limit exceeded"})
       IN  /\ call.ret \in {"TooManyLocations", "RateLimited", "OtherError"}
           /\ call.ret = "TooManyLocations" <=> tooMany
           /\ call.ret = "RateLimited" <=> (rate /\ ~tooMany)
           /\ call.ret = "OtherError" <=> (~rate /\ ~tooMany)

\* a message holding both markers, the rate-limit one first, was classified
\* TooManyLocations
C19_Witness ==
    /\ call.op = "classify"
    /\ call.arg = <<"API request limit exceeded", "Too Many">>
    /\ call.ret = "TooManyLocations"

\* C20: end to end: the first provider call, on the initial box, fails with
\* "1000 locations exceeded", the four boxes of its split are large enough to
\* be fetched and every later call succeeds; then the run returns 4 payloads
\* after 5 provider calls and has written the checkpoint exactly once.
C20_SplitThenFourSuccesses ==
    ( /\ Ended
      /\ calls /= <<>>
      /\ calls[1].outcome = "TooManyLocations"
      /\ \A i \in 2..Len(calls) : calls[i].outcome = "Success"
      /\ \A i \in 1..4 :
            ~TooSmall(create_new_rectangles(start.box[1], start.box[2],
                                            start.box[3], start.box[4])[i]) )
    => /\ pc = "returned"
       /\ Len(calls) = 5
       /\ Len(results) = 4
       /\ Len(written) = 1

\* the run was started on a box that passes lines 82-90 and the provider
\* never failed
SingleFetchableBox ==
    /\ Ended
    /\ ~TooSmall(start.box)
    /\ ~TooLarge(start.box, max_locations)
    /\ \A i \in 1..Len(calls) : calls[i].outcome = "Success"

\* exactly one call, for the initial box; its response returned; no split
OneCallOnePayload ==
    /\ pc = "returned"
    /\ Len(calls) = 1
    /\ calls[1].box = start.box
    /\ results = << [bounding_box |-> <<start.box[2], start.box[3],
                                        start.box[1], start.box[4]>>] >>
    /\ bounding_boxes = <<>>
    /\ checked_boxes = {Key(start.box)}
    /\ settled = << [box |-> start.box, how |-> "success"] >>

\* C21 as stated: a run started on a single box whose extents are both at
\* least the minimum and whose estimate does not exceed the threshold, with a
\* provider that succeeds, makes exactly 1 call, returns exactly 1 payload
\* and performs no split.
C21_SingleBoxOneCall == SingleFetchableBox => OneCallOnePayload

\* C21 amended: the same, for a failure ceiling of at least 1.  With a
\* ceiling of 0 the loop of line 67 is not entered: no call, empty list.
C21_SingleBoxOneCallPositiveCeiling ==
    (SingleFetchableBox /\ max_retries >= 1) => OneCallOnePayload

\* the box just above the minimum extent, west > est, was fetched once
C21_Witness ==
    /\ SingleFetchableBox
    /\ max_retries >= 1
    /\ start.box = <<603, 3, 603, 3>>
    /\ OneCallOnePayload

\* C22: the defaults used when the caller gives none: threshold of locations
\* per request 100, failure ceiling 2000, initial backoff 70 s with ceiling
\* 300 s, minimum extent 0.05 degree (500 units).
C22_Defaults ==
    /\ call.op = "get_response" =>
          /\ "max_locations" \notin call.given =>
                call.bound.max_locations = 100
          /\ "max_retries" \notin call.given =>
                call.bound.max_retries = 2000
          /\ "waiting_time" \notin call.given =>
                call.bound.waiting_time = 70
    /\ NextWaitingTime(200) = 300
    /\ NextWaitingTime(300) = 300
    /\ TooSmall(<<499, 0, 0, 500>>)
    /\ ~TooSmall(<<500, 0, 0, 500>>)

\* C23: call_api returns a pair (daily table, hourly table), here
\* <<daily, hourly>>, and calls get_response exactly once; both tables are
\* empty when get_response returns an empty list and both are non-empty when
\* it returns a response with daily and hourly data.
C23_CallApiReturnsTables ==
    (call.op = "call_api" /\ call.status = "returned") =>
        /\ call.get_response_calls = 1
        /\ Len(call.ret) = 2
        /\ call.arg = <<>> => (call.ret[1] = <<>> /\ call.ret[2] = <<>>)
        /\ (\E i \in 1..Len(call.arg) :
               call.arg[i][1].hourly /\ call.arg[i][1].daily)
           => (call.ret[1] /= <<>> /\ call.ret[2] /= <<>>)

\* the entries of the log of the latest save_dataframe that satisfy P
LogEntries(P(_)) == { j \in 1..Len(call.logged) : P(call.logged[j]) }

IsWarning(entry) == entry.level = "warning"

IsError(entry) == entry.level = "error"

\* the call of save_dataframe stops at a pair whose file operation raises
SaveFails ==
    /\ Len(call.arg.dataframes) = Len(call.arg.filenames)
    /\ call.arg.fails_at \in 1..Len(call.arg.filenames)
    /\ Last(call.arg.filenames[call.arg.fails_at]) = ".csv"

\* C24: with a number of dataframes different from the number of filenames
\* save_dataframe writes no file, emits one warning and returns; a filename
\* not ending in ".csv" is skipped with a warning, without being written and
\* without stopping the processing of the pairs after it.
C24_MismatchAndNonCsvSkipped ==
    call.op = "save_dataframe" =>
      LET n == Len(call.arg.filenames)
      IN  /\ Len(call.arg.dataframes) /= n =>
                /\ call.status = "returned"
                /\ call.written = <<>>
                /\ Cardinality(LogEntries(IsWarning)) = 1
                /\ LogEntries(IsError) = {}
          /\ Len(call.arg.dataframes) = n =>
                \A i \in 1..n :
                    ( /\ Last(call.arg.filenames[i]) /= ".csv"
                      /\ SaveFails => i < call.arg.fails_at )
                    => /\ \A j \in 1..Len(call.written) :
                             call.written[j].pair /= i
                       /\ Cardinality({ j \in LogEntries(IsWarning) :
                             call.logged[j].pair = i }) = 1
                       /\ \A k \in (i + 1)..n :
                             (SaveFails => k <= call.arg.fails_at)
                             => \E j \in 1..Len(call.logged) :
                                   /\ call.logged[j].pair = k
                                   /\ call.logged[j].msg = "processing"
                       /\ ~SaveFails => call.status = "returned"

\* notes.txt was skipped with a warning and daily.csv, after it, written
C24_Witness ==
    /\ call.op = "save_dataframe"
    /\ call.arg.filenames = << <<"notes", ".txt">>, <<"daily", ".csv">> >>
    /\ call.status = "returned"
    /\ Len(call.written) = 1
    /\ call.written[1].pair = 2
    /\ \E j \in LogEntries(IsWarning) : call.logged[j].pair = 1

\* C25: in INIT mode an error while writing a file is logged once and raised
\* again to the caller: the frames after the failing one are not written and
\* no success message is logged for the failing file.
C25_InitErrorLoggedAndRaised ==
    (call.op = "save_dataframe" /\ call.arg.mode = "init" /\ SaveFails) =>
        /\ call.status = "raised"
        /\ Cardinality(LogEntries(IsError)) = 1
        /\ \A j \in LogEntries(IsError) :
              call.logged[j].pair = call.arg.fails_at
        /\ \A j \in 1..Len(call.written) :
              call.written[j].pair < call.arg.fails_at
        /\ \A j \in 1..Len(call.logged) :
              /\ call.logged[j].pair <= call.arg.fails_at
              /\ call.logged[j].pair = call.arg.fails_at =>
                    /\ call.logged[j].level /= "success"
                    /\ call.logged[j].msg /= "wrote"

\* the first of two .csv files failed: nothing was written
C25_Witness ==
    /\ call.op = "save_dataframe"
    /\ call.arg.mode = "init"
    /\ call.arg.fails_at = 1
    /\ call.arg.filenames = << <<"daily", ".csv">>, <<"daily", ".csv">> >>
    /\ Len(call.arg.dataframes) = 2
    /\ call.status = "raised"
    /\ call.written = <<>>
    /\ Cardinality(LogEntries(IsError)) = 1

\* C26: for every provider behaviour, every initial box and every failure
\* ceiling the loop performs finitely many iterations and get_response
\* terminates (by returning or by raising).
C26_Terminates == <>Ended

\* a run ended after the provider gave each of the four outcomes
C26_Witness ==
    /\ Ended
    /\ CallsWith("Success") /= {}
    /\ CallsWith("TooManyLocations") /= {}
    /\ CallsWith("RateLimited") /= {}
    /\ CallsWith("OtherError") /= {}

\* C27: the minimum-extent check alone bounds the splitting: when the
\* provider rejects every request with TooManyLocations and the failure
\* ceiling is not reached, no box with an extent below the minimum is split
\* and the loop ends with an empty queue.
C27_MinExtentBoundsSplitting ==
    /\ \A i \in CallsWith("TooManyLocations") : ~TooSmall(calls[i].box)
    /\ ( /\ Ended
         /\ calls /= <<>>
         /\ CallsWith("TooManyLocations") = 1..Len(calls)
         /\ failures < max_retries )
       => (pc = "returned" /\ bounding_boxes = <<>>)

\* C28: within one run no key is sent to the provider twice, except for the
\* retry of a box whose previous call ended in RateLimited.
C28_NoKeySentTwice ==
    \A i \in 1..Len(calls) : \A j \in (i + 1)..Len(calls) :
        ( /\ Key(calls[i].box) = Key(calls[j].box)
          /\ \A k \in (i + 1)..(j - 1) :
                Key(calls[k].box) /= Key(calls[j].box) )
        => calls[i].outcome = "RateLimited"

\* a box already sent to the provider came up again and was not sent
C28_Witness ==
    /\ last.op = "skip_duplicate"
    /\ \E i \in 1..Len(calls) : calls[i].box = last.box
    /\ Len(calls) >= 2
    /\ \A i \in 1..Len(calls) : calls[i].box = last.box => i < Len(calls)

\* the box with north >= south and est >= west that covers the same region
Norm(b) ==
    <<Max(b[1], b[2]), Min(b[1], b[2]), Min(b[3], b[4]), Max(b[3], b[4])>>

\* the boxes resolved: fetched successfully, dropped as too small, dropped
\* after a failed call
Resolved ==
    SelectSeq(settled,
              LAMBDA x : x.how \in {"success", "too_small", "failed"})

\* the boxes still pending and the boxes resolved
Accounted ==
    LET resolved == Resolved
    IN  bounding_boxes \o [i \in 1..Len(resolved) |-> resolved[i].box]

RECURSIVE SumAreas(_)
SumAreas(boxes) ==
    IF boxes = <<>> THEN 0
    ELSE Area(Norm(Head(boxes))) + SumAreas(Tail(boxes))

AreaConserved ==
    LET boxes == [i \in 1..Len(Accounted) |-> Norm(Accounted[i])]
    IN  /\ SumAreas(boxes) = Area(Norm(start.box))
        /\ \A i \in 1..Len(boxes) : \A j \in (i + 1)..Len(boxes) :
              Overlap(boxes[i], boxes[j]) = 0

\* the initial box lies where the spacing of the values is far below the
\* minimum extent, as for every geographic coordinate
FineStart == \A j \in 1..4 : Spacing(start.box[j]) = 1

\* C29 as stated: at every iteration boundary of a run started from one box
\* the pending boxes and the resolved boxes are pairwise non-overlapping
\* except on edges and their areas sum to the initial box's area.
C29_AreaConserved == AreaConserved

\* C29 amended: the same for an initial box of geographic magnitude.  Where
\* the spacing of the floats exceeds the minimum extent a split can return
\* the box itself, which is then dropped as a duplicate without having been
\* resolved.
C29_AreaConservedFineRange == FineStart => AreaConserved

\* boxes of all three kinds are resolved and others are pending after splits
C29_Witness ==
    /\ FineStart
    /\ bounding_boxes /= <<>>
    /\ \E i \in 1..Len(settled) : settled[i].how = "success"
    /\ \E i \in 1..Len(settled) : settled[i].how = "too_small"
    /\ \E i \in 1..Len(settled) : settled[i].how = "failed"
    /\ Len(Accounted) >= 7

NoDuplicateEnqueued ==
    /\ \A i \in 1..Len(bounding_boxes) :
          /\ Key(bounding_boxes[i]) \notin checked_boxes
          /\ \A j \in (i + 1)..Len(bounding_boxes) :
                Key(bounding_boxes[i]) /= Key(bounding_boxes[j])
    /\ \A i \in 1..Len(settled) : settled[i].how /= "duplicate"

\* C30 as stated: in a run started from a single box all boxes enqueued by
\* splitting have pairwise distinct keys, so the duplicate test never
\* discards a box produced by a split.
C30_NoDuplicateFromSplit == NoDuplicateEnqueued

\* C30 amended: the same for an initial box of geographic magnitude.
C30_NoDuplicateFromSplitFineRange == FineStart => NoDuplicateEnqueued

\* boxes of two levels of splitting are pending
C30_Witness ==
    /\ FineStart
    /\ Len(bounding_boxes) >= 6
    /\ \E i, j \in 1..Len(bounding_boxes) :
          Abs(bounding_boxes[i][1] - bounding_boxes[i][2])
             > Abs(bounding_boxes[j][1] - bounding_boxes[j][2])

\* q holds four boxes around one point of b, in the order NW, NE, SW, SE
OrderedQuadrants(b, q) ==
    /\ Len(q) = 4
    /\ LET mid_lat == q[1][2]
           mid_lon == q[1][4]
       IN  /\ q[1] = <<b[1], mid_lat, b[3], mid_lon>>
           /\ q[2] = <<b[1], mid_lat, mid_lon, b[4]>>
           /\ q[3] = <<mid_lat, b[2], b[3], mid_lon>>
           /\ q[4] = <<mid_lat, b[2], mid_lon, b[4]>>

\* C31: boxes are dequeued in FIFO order and the 4 children of a split are
\* appended in the order NW, NE, SW, SE: an iteration removes the head of
\* the queue, the boxes behind it keep their order and stay ahead of the
\* children, for proactive splits and for splits after a TooManyLocations
\* rejection alike; no other iteration appends anything.
C31_FifoChildrenAtBack ==
    [][ Running =>
          LET n == Len(bounding_boxes)
              isSplit == last'.op = "split" \/ Called("TooManyLocations")
          IN  /\ last'.box = Head(bounding_boxes)
              /\ \A i \in 1..(n - 1) :
                    /\ i <= Len(bounding_boxes')
                    /\ bounding_boxes'[i] = bounding_boxes[i + 1]
              /\ isSplit =>
                    /\ Len(bounding_boxes') = n + 3
                    /\ OrderedQuadrants(Head(bounding_boxes),
                          SubSeq(bounding_boxes', n, n + 3))
              /\ ~isSplit => Len(bounding_boxes') = n - 1 ]_vars

\* a proactive split of the first of four siblings: the three others are
\* ahead of its four children
C31_Witness ==
    /\ last.op = "split"
    /\ last.box /= start.box
    /\ Len(bounding_boxes) = 7
    /\ OrderedQuadrants(last.box, SubSeq(bounding_boxes, 4, 7))
    /\ OrderedQuadrants(start.box,
          <<last.box>> \o SubSeq(bounding_boxes, 1, 3))

\* the payloads of the successful provider calls, in call order
SuccessPayloads ==
    LET ok == SelectSeq(calls, LAMBDA c : c.outcome = "Success")
    IN  [i \in 1..Len(ok) |-> Payload(ok[i].box)]

\* C32: the result collection holds exactly one payload per successful
\* provider call, in the order in which the calls succeeded: a successful
\* call appends its payload at the end, and every other step (a failed
\* call, a duplicate or too-small box, a split, the return) leaves the
\* collection as it was, so nothing is removed, merged or deduplicated.
C32_OnePayloadPerSuccessInOrder ==
    [][ /\ IF Called("Success")
              THEN results' = Append(results, Payload(Curr))
              ELSE results' = results
        /\ results' = SuccessPayloads' ]_vars

\* two successes with a failed call between them, after a skipped box
C32_Witness ==
    /\ Len(results) >= 2
    /\ results[1] /= results[2]
    /\ \E i, j, k \in 1..Len(calls) :
          /\ i < j /\ j < k
          /\ calls[i].outcome = "Success"
          /\ calls[j].outcome /= "Success"
          /\ calls[k].outcome = "Success"
    /\ \E i \in 1..Len(settled) : settled[i].how \in {"duplicate", "too_small"}

\* C33: the failure count never decreases and grows by at most 1 per
\* dequeued box; the provider is never called while failures >=
\* max_retries; hence the count never exceeds max_retries, on return in
\* particular, and with max_retries = 0 no provider call is made at all.
C33_FailuresBoundedByBudget ==
    [][ /\ failures' \in {failures, failures + 1}
        /\ failures' = failures + 1 =>
              /\ bounding_boxes /= <<>>
              /\ last'.box = Head(bounding_boxes)
              /\ Len(calls') = Len(calls) + 1
        /\ Len(calls') > Len(calls) => failures < max_retries
        /\ failures' <= max_retries
        /\ pc' = "returned" => failures' <= max_retries
        /\ max_retries = 0 => calls' = <<>> /\ failures' = 0 ]_vars

\* the budget was used up exactly, with a success after a failure that
\* left the count alone, and the function returned with boxes pending
C33_Witness ==
    /\ pc = "returned"
    /\ max_retries >= 2
    /\ failures = max_retries
    /\ Len(calls) > failures
    /\ \E i, j \in 1..Len(calls) :
          /\ i < j
          /\ calls[i].outcome /= "Success"
          /\ calls[j].outcome = "Success"
    /\ bounding_boxes /= <<>>

\* the comma-separated fields of a text
RECURSIVE Fields(_)
Fields(text) ==
    LET commas == { i \in 1..Len(text) : text[i] = "," }
    IN  IF commas = {} THEN <<text>>
        ELSE LET c == CHOOSE i \in commas : \A j \in commas : i <= j
             IN  <<SubSeq(text, 1, c - 1)>>
                 \o Fields(SubSeq(text, c + 1, Len(text)))

\* the numbers a request's bounding_box string reads as
SentNumbers(text) ==
    LET f == Fields(text) IN [i \in 1..Len(f) |-> ParseFloat(f[i])]

\* C34: get_response leaves the caller's params_template unchanged, and
\* every request's bounding_box string is the template's placeholder
\* string with the south, west, north and east of the box just dequeued:
\* it reads back as exactly these four numbers, never as those of an
\* earlier request, and the other keys are the template's.
C34_TemplateKeptRequestIsCurrentBox ==
    [][ /\ params_template' = params_template
        /\ params_template' = ParamsTemplate
        /\ Len(calls') > Len(calls) =>
              LET c == calls'[Len(calls')]
              IN  /\ c.box = Head(bounding_boxes)
                  /\ c.sent = params'
                  /\ c.sent.timezone = params_template.timezone
                  /\ c.sent.bounding_box
                        = FormatFloat(c.box[2]) \o <<",">>
                          \o FormatFloat(c.box[3]) \o <<",">>
                          \o FormatFloat(c.box[1]) \o <<",">>
                          \o FormatFloat(c.box[4])
                  /\ SentNumbers(c.sent.bounding_box)
                        = <<c.box[2], c.box[3], c.box[1], c.box[4]>>
                  /\ SubSeq(calls', 1, Len(calls)) = calls ]_vars

\* two requests for different boxes went out, the second after the first
\* had been substituted into params, and the template is as passed
C34_Witness ==
    /\ Len(calls) >= 2
    /\ calls[1].box /= calls[2].box
    /\ calls[1].sent.bounding_box /= calls[2].sent.bounding_box
    /\ params = calls[Len(calls)].sent
    /\ params /= params_template
    /\ params_template = ParamsTemplate

====
